---- MODULE Spec2Model ----
(***************************************************************************)
(* Model of the Microsoft 365 license report job (license-report.py):      *)
(* main() acquires a token, reads the subscribed SKUs, the paginated users *)
(* listing and the activity report, runs process_and_export_data (join,    *)
(* flags, actionables, per-SKU utilization, cost summary, KPIs, the two    *)
(* workbook writes) and mails the result.  SpecActivity runs              *)
(* get_users_activity_status alone on any report; FairSpec adds the        *)
(* progress of the pagination loop.                                        *)
(*                                                                         *)
(* SpecNewHire models the onboarding script (new-hire-creation.py): the    *)
(* prompts, get_token, create_user, assign_manager, add_user_to_groups.    *)
(* The two scripts share no state; each specification leaves the other     *)
(* script's variables off.                                                 *)
(*                                                                         *)
(* Representation.  Strings that the code transforms character by          *)
(* character (UPNs, the decimal string of total_enabled) are sequences of  *)
(* one-character strings.  SKU part numbers, SKU ids and reasons are only  *)
(* compared, looked up and sorted, and are TLA+ strings.  The `licenses`   *)
(* string is a sequence of tokens in which ";" is the separator token.     *)
(* Money is in cents; percentages are in hundredths of a percent.          *)
(* Instants are hours since an epoch, dates are days since that epoch.     *)
(* Display-only columns (displayName, mail, userType, createdDateTime,     *)
(* warning, suspended) carry no logic and are left out of the rows.        *)
(***************************************************************************)
EXTENDS Integers, Sequences, FiniteSets, TLC

\* ------------------------------------------------------------------------
\* Configuration (license-report.py:10-44)

PERIOD_DAYS == 30

\* The Eastern calendar date that datetime.now(est) falls on during the run.
Today == 40

\* US/Eastern is behind UTC; the run is modelled in standard time.
EasternUtcOffsetHours == 5

\* The cost table, in cents per unit and month.
UNIT_COST_DICTIONARY ==
    ("ATP_ENTERPRISE" :> 300) @@ ("Clipchamp_Standard" :> 700) @@
    ("DYN365_BUSCENTRAL_ESSENTIAL" :> 7000) @@ ("ENTERPRISEPACK" :> 3600) @@
    ("EXCHANGEDESKLESS" :> 400) @@ ("EXCHANGEENTERPRISE" :> 800) @@
    ("EXCHANGESTANDARD" :> 400) @@ ("MCOMEETADV" :> 200) @@
    ("MCOTEAMS_ESSENTIALS" :> 400) @@ ("Microsoft_365_Copilot" :> 3000) @@
    ("Microsoft_365_E3_(no_Teams)" :> 3300) @@
    ("Microsoft_Teams_Enterprise_New" :> 700) @@
    ("Microsoft_Teams_Exploratory_Dept" :> 0) @@
    ("Microsoft_Teams_Premium" :> 700) @@ ("Microsoft_Teams_Rooms_Basic" :> 0) @@
    ("Microsoft_Teams_Rooms_Pro" :> 4000) @@ ("PBI_PREMIUM_PER_USER" :> 2000) @@
    ("POWERAPPS_DEV" :> 1000) @@ ("POWER_BI_PRO" :> 1000) @@
    ("PROJECTPROFESSIONAL" :> 3000) @@ ("SPE_E3" :> 3600) @@ ("SPE_E5" :> 5700) @@
    ("THREAT_INTELLIGENCE" :> 200) @@
    ("Teams_Phone_with_domestic_and_international_calling" :> 1500) @@
    ("Teams_Premium_(for_Departments)" :> 700)

\* UNIT_COST_DICTIONARY.get(part, 0)
UnitCost(part) ==
    IF part \in DOMAIN UNIT_COST_DICTIONARY THEN UNIT_COST_DICTIONARY[part] ELSE 0

\* ------------------------------------------------------------------------
\* Bounds of the model

MaxSkus == 2
MaxUsers == 2
MaxActivity == 2
MaxPages == 2
MaxGroups == 2

\* ------------------------------------------------------------------------
\* Character strings

UpperChars == <<"A", "B", "C", "D", "E", "F", "G", "H">>
LowerChars == <<"a", "b", "c", "d", "e", "f", "g", "h">>

\* Code-point order of the characters the model uses.
CharOrder ==
    <<" ", "0", "1", "2", "3", "4", "5", "6", "7", "8", "9", "@">>
        \o UpperChars \o LowerChars \o <<"i", "n", "r", "s", "t", "u", "x">>

CodeOf ==
    [c \in {CharOrder[i] : i \in 1..Len(CharOrder)} |->
        CHOOSE i \in 1..Len(CharOrder) : CharOrder[i] = c]

Code(c) == CodeOf[c]

\* The lower-case letter of each upper-case letter.
LowerOf ==
    [c \in {UpperChars[i] : i \in 1..Len(UpperChars)} |->
        LowerChars[CHOOSE i \in 1..Len(UpperChars) : UpperChars[i] = c]]

\* str.lower(), one character
LowerChar(c) == IF c \in DOMAIN LowerOf THEN LowerOf[c] ELSE c

\* str.lower()
Lower(s) == [i \in 1..Len(s) |-> LowerChar(s[i])]

\* str.strip(): leading and trailing blanks removed
Strip(s) ==
    LET keep == {i \in 1..Len(s) : s[i] # " "}
    IN  IF keep = {} THEN <<>>
        ELSE LET lo == CHOOSE i \in keep : \A j \in keep : i <= j
                 hi == CHOOSE i \in keep : \A j \in keep : j <= i
             IN  SubSeq(s, lo, hi)

\* str.startswith(prefix)
StartsWith(s, prefix) ==
    /\ Len(prefix) <= Len(s)
    /\ SubSeq(s, 1, Len(prefix)) = prefix

\* str.endswith(suffix)
EndsWith(s, suffix) ==
    /\ Len(suffix) <= Len(s)
    /\ SubSeq(s, Len(s) - Len(suffix) + 1, Len(s)) = suffix

\* Python's order on strings: lexicographic by code point.
RECURSIVE StrLess(_, _)
StrLess(a, b) ==
    IF b = <<>> THEN FALSE
    ELSE IF a = <<>> THEN TRUE
    ELSE IF Code(Head(a)) # Code(Head(b)) THEN Code(Head(a)) < Code(Head(b))
    ELSE StrLess(Tail(a), Tail(b))

Digits == <<"0", "1", "2", "3", "4", "5", "6", "7", "8", "9">>

\* str(n) of a non-negative integer
RECURSIVE DecimalString(_)
DecimalString(n) ==
    IF n < 10 THEN <<Digits[n + 1]>>
    ELSE Append(DecimalString(n \div 10), Digits[(n % 10) + 1])

\* ------------------------------------------------------------------------
\* What the directory service can answer

\* subscribedSkus objects: skuId, skuPartNumber, prepaidUnits.enabled, consumedUnits
SkuCatalog ==
    << [skuId |-> "id-EP", skuPartNumber |-> "ENTERPRISEPACK",
        enabled |-> 25, consumedUnits |-> 2],
       [skuId |-> "id-EE", skuPartNumber |-> "EXCHANGEENTERPRISE",
        enabled |-> 100, consumedUnits |-> 3],
       [skuId |-> "id-E5", skuPartNumber |-> "SPE_E5",
        enabled |-> 7, consumedUnits |-> 0],
       [skuId |-> "id-PBI", skuPartNumber |-> "POWER_BI_PRO",
        enabled |-> 0, consumedUnits |-> 1] >>

\* The elements of s at the positions in idx, in the order of s.
RECURSIVE Pick(_, _)
Pick(s, idx) ==
    IF s = <<>> THEN <<>>
    ELSE LET rest == Pick(Tail(s), {i - 1 : i \in idx \ {1}})
         IN  IF 1 \in idx THEN <<Head(s)>> \o rest ELSE rest

\* The value lists a subscribedSkus response can carry.
SkuSnapshots ==
    {Pick(SkuCatalog, idx) :
        idx \in {x \in SUBSET (1..Len(SkuCatalog)) : Cardinality(x) <= MaxSkus}}

\* assignedLicenses and accountEnabled of a directory account
UserProfiles ==
    { [assignedLicenses |-> <<"id-EE">>, accountEnabled |-> FALSE],
      [assignedLicenses |-> <<"id-EP", "id-EE", "id-EP">>, accountEnabled |-> FALSE],
      [assignedLicenses |-> <<"id-EP">>, accountEnabled |-> TRUE] }

\* The userPrincipalName of the n-th account of the directory; the directory
\* keeps UPNs unique (case-insensitively).
UpnOf(n) ==
    <<IF n % 2 = 1 THEN UpperChars[n] ELSE LowerChars[n], "@", "x">>

\* A user object of the n-th account.
UserObject(n, profile) ==
    [id |-> n, userPrincipalName |-> UpnOf(n),
     accountEnabled |-> profile.accountEnabled,
     assignedLicenses |-> profile.assignedLicenses]

\* The accounts the directory can hold: at most MaxUsers user objects.
DirectoryListings ==
    UNION {{[i \in 1..n |-> UserObject(i, items[i])] : items \in [1..n -> UserProfiles]} :
              n \in 0..MaxUsers}

\* The ways to cut n items into k consecutive pages (a page may be empty):
\* c[j] is the number of items on the first j pages.
PageCuts(n, k) ==
    {c \in [0..k -> 0..n] :
        /\ c[0] = 0
        /\ c[k] = n
        /\ \A j \in 1..k : c[j - 1] <= c[j]}

\* The chains of result pages the directory can serve for the users listing:
\* 1 to MaxPages pages, each the "value" list of one answer; every page but
\* the last carries an @odata.nextLink to the page after it.
UserChains ==
    UNION {UNION {{[j \in 1..k |-> SubSeq(listing, c[j - 1] + 1, c[j])] :
                      c \in PageCuts(Len(listing), k)} :
                  k \in 1..MaxPages} :
              listing \in DirectoryListings}

\* A cell of a date column of the activity report: empty (or the column is
\* absent), a timestamp string (the instant it denotes, in hours), or text
\* that is no timestamp.
EmptyCell == [kind |-> "empty", t |-> 0]
TextCell == [kind |-> "text", t |-> 0]
DateCell(day, hour) == [kind |-> "date", t |-> day * 24 + hour]

\* Date strings around the inactivity cutoff: a date-only string of the day
\* before the cutoff; a date-only string of the day after it, an instant
\* that is still the cutoff date in Eastern time; a timestamp later on the
\* day after it.
BeforeCutoff == DateCell(Today - PERIOD_DAYS - 1, 0)
OnCutoff == DateCell(Today - PERIOD_DAYS + 1, 0)
AfterCutoff == DateCell(Today - PERIOD_DAYS + 1, 12)

\* A row of the activity report as csv.DictReader yields it.  An absent
\* column and an empty cell are both falsy for Python's `or` and are both <<>>
\* (identifier columns) or EmptyCell (date columns).
CsvRow(upn, altUpn, userId, lad, ladUtc, rrd) ==
    [UserPrincipalName |-> upn, UPN |-> altUpn, UserId |-> userId,
     LastActivityDate |-> lad, LastActivityDateUTC |-> ladUtc,
     ReportRefreshDate |-> rrd]

\* The rows an activity report can carry: rows of the first two accounts,
\* the identifier written in upper case; the last row has no "Last Activity
\* Date" and a "Last Activity Date (UTC)" that is no timestamp.
ReportRows ==
    << CsvRow(<<"A", "@", "x">>, <<>>, <<>>, OnCutoff, EmptyCell, EmptyCell),
       CsvRow(<<"A", "@", "x">>, <<>>, <<>>, AfterCutoff, EmptyCell, EmptyCell),
       CsvRow(<<"B", "@", "x">>, <<>>, <<>>, BeforeCutoff, EmptyCell, EmptyCell),
       CsvRow(<<"B", "@", "x">>, <<>>, <<>>, EmptyCell, TextCell, AfterCutoff) >>

\* The row lists the CSV reader can yield: the report's rows, of which at
\* most MaxActivity are present.
ReportReaders ==
    {Pick(ReportRows, idx) :
        idx \in {x \in SUBSET (1..Len(ReportRows)) : Cardinality(x) <= MaxActivity}}

\* Identifier cells ("User Principal Name", "UPN", "User Id") a report row can
\* carry: each column alone, none, all three, a blank first column, padding
\* and upper case, the three skipped prefixes, and an identifier that begins
\* with "user" but not with "user ".
IdentifierCells ==
    { << <<>>, <<" ", "B", "@", "x", " ">>, <<>> >>,
      << <<>>, <<>>, <<"c", "@", "x">> >>,
      << <<>>, <<>>, <<>> >>,
      << <<" ">>, <<"A", "@", "x">>, <<>> >>,
      << <<"A", "@", "x">>, <<"B", "@", "x">>, <<"c", "@", "x">> >>,
      << <<" ", "u", "s", "e", "r", " ", "1">>, <<>>, <<>> >>,
      << <<>>, <<"H", "i", "d", "d", "e", "n">>, <<>> >>,
      << <<>>, <<>>, <<"r", "e", "d", "a", "c", "t", "e", "d", "1">> >>,
      << <<"u", "s", "e", "r", "s", "@", "x">>, <<>>, <<>> >> }

\* Date cells ("Last Activity Date", "Last Activity Date (UTC)", "Report
\* Refresh Date") a report row can carry.
ActivityCells ==
    { <<EmptyCell, AfterCutoff, BeforeCutoff>>,
      <<EmptyCell, EmptyCell, BeforeCutoff>>,
      <<EmptyCell, EmptyCell, EmptyCell>>,
      <<TextCell, AfterCutoff, EmptyCell>> }

\* Any row of an activity report.
CsvRows ==
    {CsvRow(id[1], id[2], id[3], d[1], d[2], d[3]) :
        id \in IdentifierCells, d \in ActivityCells}

\* The row lists the CSV reader can yield for any report of at most
\* MaxActivity rows.
CsvReaders == UNION {[1..k -> CsvRows] : k \in 0..MaxActivity}

\* ------------------------------------------------------------------------
\* Generic helpers

Max(a, b) == IF a >= b THEN a ELSE b

\* sort_values / sorted: the elements of s in ascending order of Less, equal
\* elements in their order in s.
StableSort(s, Less(_, _)) ==
    LET pos == [i \in 1..Len(s) |->
                    1 + Cardinality({j \in 1..Len(s) :
                            \/ Less(s[j], s[i])
                            \/ (~Less(s[i], s[j]) /\ j < i)})]
    IN  [p \in 1..Len(s) |-> s[CHOOSE i \in 1..Len(s) : pos[i] = p]]

\* The concatenation of the sequences f(s[1]), f(s[2]), ...
FlatMap(s, f(_)) ==
    LET F[i \in 0..Len(s)] == IF i = 0 THEN <<>> ELSE F[i - 1] \o f(s[i])
    IN  F[Len(s)]

\* round(num / den) to an integer, ties to even (Python round, numpy round)
RoundHalfEven(num, den) ==
    LET q == num \div den
        r == num % den
    IN  IF 2 * r < den THEN q
        ELSE IF 2 * r > den THEN q + 1
        ELSE IF q % 2 = 0 THEN q ELSE q + 1

\* Code-point order of the SKU tokens the model uses (sorted(), groupby,
\* sort_values on skuPartNumber).
TokenOrder ==
    <<"ENTERPRISEPACK", "EXCHANGEENTERPRISE", "POWER_BI_PRO", "SPE_E5",
      "id-E5", "id-EE", "id-EP", "id-PBI">>

TokenRankOf ==
    [t \in {TokenOrder[i] : i \in 1..Len(TokenOrder)} |->
        CHOOSE i \in 1..Len(TokenOrder) : TokenOrder[i] = t]

TokenRank(t) == TokenRankOf[t]

TokenLess(a, b) == TokenRank(a) < TokenRank(b)

\* pd.NaT / a missing date, and a present value
NaT == [na |-> TRUE, v |-> 0]
Val(x) == [na |-> FALSE, v |-> x]

\* ------------------------------------------------------------------------
\* get_licenses: one row per subscribed SKU

SkuRow(sku) ==
    [skuId |-> sku.skuId,
     skuPartNumber |-> sku.skuPartNumber,
     total_enabled |-> sku.enabled,
     consumed |-> sku.consumedUnits,
     remaining |-> Max(sku.enabled - sku.consumedUnits, 0),
     estMonthlyCost |-> sku.consumedUnits * UnitCost(sku.skuPartNumber)]

LicenseRows(value) == [i \in 1..Len(value) |-> SkuRow(value[i])]

\* get_all_users: one row per user object
UserRow(user) ==
    [id |-> user.id, UPN |-> user.userPrincipalName,
     accountEnabled |-> user.accountEnabled,
     assignedLicenses |-> user.assignedLicenses]

\* ------------------------------------------------------------------------
\* get_users_activity_status

\* a or b for strings
OrStr(a, b) == IF a # <<>> THEN a ELSE b

\* a or b for date cells
OrCell(a, b) == IF a.kind # "empty" THEN a ELSE b

RowUpn(row) ==
    Lower(Strip(OrStr(row.UserPrincipalName, OrStr(row.UPN, OrStr(row.UserId, <<>>)))))

\* Faulty variant: only an empty identifier is skipped.
RowSkipped_empty_only(row) == RowUpn(row) = <<>>

RowSkipped(row) ==
    LET upn == RowUpn(row)
    IN  \/ upn = <<>>
        \/ StartsWith(upn, <<"u", "s", "e", "r", " ">>)
        \/ StartsWith(upn, <<"h", "i", "d", "d", "e", "n">>)
        \/ StartsWith(upn, <<"r", "e", "d", "a", "c", "t", "e", "d">>)

RowActivity(row) ==
    OrCell(row.LastActivityDate, OrCell(row.LastActivityDateUTC, row.ReportRefreshDate))

ActivityRow(row) ==
    IF RowSkipped(row) THEN <<>>
    ELSE <<[UPN_lower |-> RowUpn(row), LastActivityDate |-> RowActivity(row)]>>

ActivityRows(reader) == FlatMap(reader, ActivityRow)

\* ------------------------------------------------------------------------
\* process_and_export_data: data cleaning, join, flags

\* pd.to_datetime(..., errors="coerce", utc=True) of one cell
ToDatetime(cell) == IF cell.kind = "date" THEN Val(cell.t) ELSE NaT

\* .fillna("").astype(str).str.strip().str.lower()
NormalizeUpn(upn) == Lower(Strip(upn))

CleanActivity(activity) ==
    [i \in 1..Len(activity) |->
        [UPN_lower |-> NormalizeUpn(activity[i].UPN_lower),
         LastActivityDate |-> ToDatetime(activity[i].LastActivityDate)]]

\* users_df.merge(activity_df, how="left", on="UPN_lower"): the rows of one
\* user, one per matching activity row in report order, or one row with a
\* missing date when no activity row matches.
MergeUser(u, activity) ==
    LET key == NormalizeUpn(u.UPN)
        hits == SelectSeq(activity, LAMBDA a : a.UPN_lower = key)
    IN  IF hits = <<>>
        THEN <<[user |-> u, UPN_lower |-> key, LastActivityDate |-> NaT]>>
        ELSE [i \in 1..Len(hits) |->
                [user |-> u, UPN_lower |-> key,
                 LastActivityDate |-> hits[i].LastActivityDate]]

LeftMerge(users, activity) ==
    FlatMap(users, LAMBDA u : MergeUser(u, activity))

\* .dt.tz_convert("US/Eastern").dt.tz_localize(None).dt.date
EasternDate(ts) ==
    IF ts.na THEN NaT ELSE Val((ts.v - EasternUtcOffsetHours) \div 24)

\* (datetime.now(est) - timedelta(days=PERIOD_DAYS)).date()
inactivity_cutoff == Today - PERIOD_DAYS

\* Faulty variant: the cutoff date itself counts as active.
Inactive30d_strict(date) == IF date.na THEN TRUE ELSE date.v < inactivity_cutoff

\* lambda ts: True if pd.isna(ts) else ts <= inactivity_cutoff
Inactive30d(date) == IF date.na THEN TRUE ELSE date.v <= inactivity_cutoff

\* license_map.get(x, str(x)) with license_map = dict(zip(skuId, skuPartNumber)):
\* the part number of the last row with that id, else the id itself.
LicenseMapGet(skus, x) ==
    LET rows == {i \in 1..Len(skus) : skus[i].skuId = x}
    IN  IF rows = {} THEN x
        ELSE skus[CHOOSE i \in rows : \A j \in rows : j <= i].skuPartNumber

\* sorted(set) of tokens
SortedTokens(set) ==
    LET pos(t) == 1 + Cardinality({o \in set : TokenLess(o, t)})
    IN  [p \in 1..Cardinality(set) |-> CHOOSE t \in set : pos(t) = p]

\* ";".join(parts)
JoinSemicolon(parts) ==
    LET F[i \in 0..Len(parts)] ==
            IF i = 0 THEN <<>>
            ELSE IF i = 1 THEN <<parts[1]>>
            ELSE F[i - 1] \o <<";", parts[i]>>
    IN  F[Len(parts)]

\* [sku for sku in lics.split(";") if sku]
SplitSemicolon(lics) == SelectSeq(lics, LAMBDA t : t # ";")

\* ";".join(sorted({license_map.get(x, str(x)) for x in (arr or [])}))
Licenses(skus, arr) ==
    JoinSemicolon(SortedTokens({LicenseMapGet(skus, arr[i]) : i \in 1..Len(arr)}))

paid_skus == {k \in DOMAIN UNIT_COST_DICTIONARY : UNIT_COST_DICTIONARY[k] > 0}

exclude_for_disabled == {"EXCHANGEENTERPRISE"}

\* Faulty variant: nothing is excluded for the disabled-account rule.
paid_excl_all == paid_skus

paid_excl == paid_skus \ exclude_for_disabled

\* any(sku in paid_skus for sku in lics.split(";") if sku)
has_paid(lics) ==
    LET held == SplitSemicolon(lics)
    IN  \E i \in 1..Len(held) : held[i] \in paid_skus

\* any(sku in paid_excl for sku in lics.split(";") if sku)
has_paid_excl(lics) ==
    LET held == SplitSemicolon(lics)
    IN  \E i \in 1..Len(held) : held[i] \in paid_excl

\* One row of merged_df with every derived column.
MergedRow(skus, m) ==
    LET date == EasternDate(m.LastActivityDate)
        lics == Licenses(skus, m.user.assignedLicenses)
    IN  [id |-> m.user.id,
         UPN |-> m.user.UPN,
         UPN_lower |-> m.UPN_lower,
         accountEnabled |-> m.user.accountEnabled,
         assignedLicenses |-> m.user.assignedLicenses,
         LastActivityDate |-> date,
         Inactive30d |-> Inactive30d(date),
         licenses |-> lics,
         hasLicense |-> Len(lics) > 0,
         hasPaidLicense |-> has_paid(lics),
         hasPaidLicenseExclExchEnt |-> has_paid_excl(lics)]

MergedDf(skus, users, activity) ==
    LET joined == LeftMerge(users, CleanActivity(activity))
    IN  [i \in 1..Len(joined) |-> MergedRow(skus, joined[i])]

\* ------------------------------------------------------------------------
\* process_and_export_data: actionables, utilization, cost summary, KPIs

REASON_INACTIVE == "Licensed but no activity in last 30d"
REASON_DISABLED == "Disabled account has licenses"

WithReason(rows, reason) ==
    [i \in 1..Len(rows) |-> [Reason |-> reason, row |-> rows[i]]]

ToDo1Filter(r) == r.hasLicense /\ r.Inactive30d /\ r.hasPaidLicense

\* Faulty variant: the disabled-account rule forgets the accountEnabled test.
ToDo2Filter_any_account(r) == r.hasLicense /\ r.hasPaidLicenseExclExchEnt

ToDo2Filter(r) ==
    r.hasLicense /\ r.hasPaidLicenseExclExchEnt /\ (r.accountEnabled = FALSE)

ToDo1(merged) == WithReason(SelectSeq(merged, ToDo1Filter), REASON_INACTIVE)

ToDo2(merged) == WithReason(SelectSeq(merged, ToDo2Filter), REASON_DISABLED)

\* sku_stats: (sku, 1, 1 if active else 0) per licensed row and SKU held
SkuStatsOfRow(r) ==
    IF ~r.hasLicense THEN <<>>
    ELSE LET held == SplitSemicolon(r.licenses)
         IN  [i \in 1..Len(held) |->
                [skuPartNumber |-> held[i], licensedUsers |-> 1,
                 activeUsers30d |-> IF r.Inactive30d THEN 0 ELSE 1]]

SkuStats(merged) == FlatMap(merged, SkuStatsOfRow)

\* The sum of f over the elements of s.
SumSeq(s, f(_)) ==
    LET F[i \in 0..Len(s)] == IF i = 0 THEN 0 ELSE F[i - 1] + f(s[i])
    IN  F[Len(s)]

\* (active / licensed).round(4) * 100.0, in hundredths of a percent
UtilizationPct(active, licensed) == RoundHalfEven(active * 10000, licensed)

\* groupby("skuPartNumber", as_index=False).sum() plus utilizationPct30d:
\* one row per part number present in sku_stats, in sorted key order.
Util(merged) ==
    LET stats == SkuStats(merged)
        keys == SortedTokens({stats[i].skuPartNumber : i \in 1..Len(stats)})
        of(k) == SelectSeq(stats, LAMBDA x : x.skuPartNumber = k)
    IN  [i \in 1..Len(keys) |->
            LET lic == SumSeq(of(keys[i]), LAMBDA x : x.licensedUsers)
                act == SumSeq(of(keys[i]), LAMBDA x : x.activeUsers30d)
            IN  [skuPartNumber |-> keys[i], licensedUsers |-> lic,
                 activeUsers30d |-> act,
                 utilizationPct30d |-> UtilizationPct(act, lic)]]

\* skus_df.merge(util, how="left", on="skuPartNumber"), .fillna(0), unitCost
SkuSummaryRow(sku, util) ==
    LET hit == SelectSeq(util, LAMBDA x : x.skuPartNumber = sku.skuPartNumber)
    IN  [skuId |-> sku.skuId,
         skuPartNumber |-> sku.skuPartNumber,
         total_enabled |-> sku.total_enabled,
         consumed |-> sku.consumed,
         remaining |-> sku.remaining,
         estMonthlyCost |-> sku.estMonthlyCost,
         licensedUsers |-> IF hit = <<>> THEN 0 ELSE hit[1].licensedUsers,
         activeUsers30d |-> IF hit = <<>> THEN 0 ELSE hit[1].activeUsers30d,
         utilizationPct30d |-> IF hit = <<>> THEN 0 ELSE hit[1].utilizationPct30d,
         unitCost |-> UnitCost(sku.skuPartNumber)]

SkuSummary(skus, util) == [i \in 1..Len(skus) |-> SkuSummaryRow(skus[i], util)]

has_enabled(r) == r.total_enabled > 0

\* Faulty variant: no quantity is taken for a bulk quantity.
ends_bulk_never(r) == FALSE

\* .astype(str).str.endswith(("00", "000"))
ends_bulk(r) ==
    \/ EndsWith(DecimalString(r.total_enabled), <<"0", "0">>)
    \/ EndsWith(DecimalString(r.total_enabled), <<"0", "0", "0">>)

is_paid(r) == r.unitCost > 0

PaidSummaryFilter(r) == has_enabled(r) /\ ~ends_bulk(r) /\ is_paid(r)

\* paid_summary[paid_summary["estMonthlyCost_num"] > 0]
CostSummary(sku_summary) ==
    SelectSeq(SelectSeq(sku_summary, PaidSummaryFilter),
              LAMBDA r : r.estMonthlyCost > 0)

\* to_do["UPN"].nunique() if not to_do.empty else 0
NUniqueUpn(todo) == Cardinality({todo[i].row.UPN : i \in 1..Len(todo)})

\* The KPI values (the report timestamp row is display only).
Kpis(util, todo1, todo2) ==
    LET total_licensed == SumSeq(util, LAMBDA x : x.licensedUsers)
        total_active == SumSeq(util, LAMBDA x : x.activeUsers30d)
    IN  [total_licensed |-> total_licensed,
         total_active |-> total_active,
         util_pct |-> IF total_licensed # 0
                      THEN RoundHalfEven(total_active * 10000, total_licensed)
                      ELSE 0,
         todo_inactive |-> NUniqueUpn(todo1),
         todo_disabled |-> NUniqueUpn(todo2)]

\* ------------------------------------------------------------------------
\* process_and_export_data: the sheets handed to the workbook writer

ReasonLess(a, b) == a = REASON_DISABLED /\ b = REASON_INACTIVE

\* cost_summary[sku_cols].sort_values("skuPartNumber")
SkuSummarySheet(cost_summary) ==
    LET cols == [i \in 1..Len(cost_summary) |->
                    [skuPartNumber |-> cost_summary[i].skuPartNumber,
                     total_enabled |-> cost_summary[i].total_enabled,
                     remaining |-> cost_summary[i].remaining,
                     licensedUsers |-> cost_summary[i].licensedUsers,
                     activeUsers30d |-> cost_summary[i].activeUsers30d,
                     utilizationPct30d |-> cost_summary[i].utilizationPct30d,
                     estMonthlyCost |-> cost_summary[i].estMonthlyCost]]
    IN  StableSort(cols, LAMBDA a, b : TokenLess(a.skuPartNumber, b.skuPartNumber))

\* Faulty variant: the rows are written without dropping duplicates.
DropDuplicates_skipped(rows) == rows

\* drop_duplicates(subset=["Reason", "UPN"]): the first row of each pair stays
DropDuplicates(rows) ==
    LET keep == {i \in 1..Len(rows) :
                    ~\E j \in 1..(i - 1) :
                        rows[j].Reason = rows[i].Reason /\ rows[j].UPN = rows[i].UPN}
    IN  Pick(rows, keep)

\* actionable[actionable_cols].drop_duplicates(...).sort_values(["Reason", "UPN"])
ActionableSheet(actionable) ==
    LET cols == [i \in 1..Len(actionable) |->
                    [Reason |-> actionable[i].Reason,
                     UPN |-> actionable[i].row.UPN,
                     accountEnabled |-> actionable[i].row.accountEnabled,
                     licenses |-> actionable[i].row.licenses,
                     LastActivityDate |-> actionable[i].row.LastActivityDate]]
    IN  StableSort(DropDuplicates(cols),
                   LAMBDA a, b : \/ ReasonLess(a.Reason, b.Reason)
                                 \/ (a.Reason = b.Reason /\ StrLess(a.UPN, b.UPN)))

\* merged_df[users_out_cols].sort_values("UPN")
UsersSheet(merged) ==
    LET cols == [i \in 1..Len(merged) |->
                    [UPN |-> merged[i].UPN,
                     accountEnabled |-> merged[i].accountEnabled,
                     licenses |-> merged[i].licenses,
                     LastActivityDate |-> merged[i].LastActivityDate,
                     Inactive30d |-> merged[i].Inactive30d]]
    IN  StableSort(cols, LAMBDA a, b : StrLess(a.UPN, b.UPN))

Sheet(name, rows) == [name |-> name, rows |-> rows]

\* The workbook of the first `with pd.ExcelWriter(...)` block.
FirstWorkbook(kpi, cost_summary, actionable, merged) ==
    << Sheet("Overview", <<kpi>>),
       Sheet("SKU_Summary", SkuSummarySheet(cost_summary)),
       Sheet("Actionable", ActionableSheet(actionable)),
       Sheet("Users", UsersSheet(merged)) >>

\* The workbook of the second `with pd.ExcelWriter(...)` block.
SecondWorkbook(cost_summary, actionable, merged) ==
    << Sheet("SKU_Summary", SkuSummarySheet(cost_summary)),
       Sheet("Actionable", ActionableSheet(actionable)),
       Sheet("Users", UsersSheet(merged)) >>

\* ------------------------------------------------------------------------
\* State of one run of main()

VARIABLES
    pc,            \* the statement of main() that runs next
    skus_df,       \* result of get_licenses
    users_df,      \* rows collected by get_all_users
    chain,         \* pages of the users listing the directory has yet to serve
    pages,         \* pages read so far while pagination_helper's loop runs
    response,      \* rows csv.DictReader yields for the activity report read
    activity_df,   \* result of get_users_activity_status
    merged_df,     \* process_and_export_data: the joined frame with its flags
    to_do1,        \* rows of the licensed-but-inactive rule
    to_do2,        \* rows of the disabled-but-licensed rule
    util,          \* per-SKU utilization
    cost_summary,  \* the filtered SKU summary
    kpis,          \* the KPI values
    outfile,       \* the workbook at OUTFILE
    emailSent,     \* smtp.send_message has delivered the message
    readFailed,    \* some read of the acquisition got an error answer
    \* new-hire-creation.py
    hpc,           \* the statement of the provisioning script that runs next
    GROUP_IDS,     \* the configured list of group ids
    user_data,     \* the fields typed in by the operator
    user_id,       \* the id create_user returned
    calls,         \* the requests the script has made, in order
    accounts,      \* directory: the accounts created
    manager,       \* directory: the manager reference of the new account
    members        \* directory: the groups the new account was added to, in order

\* The variables of new-hire-creation.py.
hire == <<hpc, GROUP_IDS, user_data, user_id, calls, accounts, manager, members>>

\* The variables of license-report.py.
report == <<pc, skus_df, users_df, chain, pages, response, activity_df, merged_df,
            to_do1, to_do2, util, cost_summary, kpis, outfile, emailSent,
            readFailed>>

vars == <<report, hire>>

NoUserData == [userPrincipalName |-> <<>>, manager_email |-> ""]

\* new-hire-creation.py is not run.
HireOff ==
    /\ hpc = "off"
    /\ GROUP_IDS = <<>>
    /\ user_data = NoUserData
    /\ user_id = ""
    /\ calls = <<>>
    /\ accounts = {}
    /\ manager = ""
    /\ members = <<>>

frames == <<merged_df, to_do1, to_do2, util, cost_summary, kpis>>

\* The frame `actionable`: pd.concat of the two rule results, in that order.
actionable == to_do1 \o to_do2

NoFile == [exists |-> FALSE, sheets |-> <<>>]

NoKpis == [total_licensed |-> 0, total_active |-> 0, util_pct |-> 0,
           todo_inactive |-> 0, todo_disabled |-> 0]

Init ==
    /\ pc = "token"
    /\ skus_df = <<>>
    /\ users_df = <<>>
    /\ chain \in UserChains
    /\ pages = 0
    /\ response = <<>>
    /\ activity_df = <<>>
    /\ merged_df = <<>>
    /\ to_do1 = <<>>
    /\ to_do2 = <<>>
    /\ util = <<>>
    /\ cost_summary = <<>>
    /\ kpis = NoKpis
    /\ outfile = NoFile
    /\ emailSent = FALSE
    /\ readFailed = FALSE
    /\ HireOff

\* ------------------------------------------------------------------------
\* main(): token and data acquisition

\* get_graph_api_access_token returns token["access_token"].
GetToken ==
    /\ pc = "token"
    /\ pc' = "skus"
    /\ UNCHANGED <<skus_df, users_df, pages, activity_df, frames, outfile,
                   emailSent, readFailed, response, chain,
                   hire>>

\* The token answer carries no access_token: the lookup raises.
GetTokenFails ==
    /\ pc = "token"
    /\ pc' = "failed"
    /\ UNCHANGED <<skus_df, users_df, pages, activity_df, frames, outfile,
                   emailSent, readFailed, response, chain,
                   hire>>

\* get_licenses on a 2xx answer.
GetLicenses ==
    /\ pc = "skus"
    /\ \E value \in SkuSnapshots : skus_df' = LicenseRows(value)
    /\ pc' = "users"
    /\ UNCHANGED <<users_df, pages, activity_df, frames, outfile, emailSent,
                   readFailed, response, chain, hire>>

\* get_licenses on an error answer with a JSON body: no status check is
\* made, the body has no "value", and the frame is empty.
GetLicensesError ==
    /\ pc = "skus"
    /\ skus_df' = <<>>
    /\ readFailed' = TRUE
    /\ pc' = "users"
    /\ UNCHANGED <<users_df, pages, activity_df, frames, outfile, emailSent,
                   response, chain, hire>>

\* Faulty variant: the loop ends after the first page whether or not the page
\* carries a next link.
FetchUsersPage_first_page_only ==
    /\ pc = "users"
    /\ pages < MaxPages
    /\ chain # <<>>
    /\ users_df' = users_df \o
            [i \in 1..Len(Head(chain)) |-> UserRow(Head(chain)[i])]
    /\ pc' = "activity"
    /\ pages' = 0
    /\ chain' = Tail(chain)
    /\ UNCHANGED <<skus_df, activity_df, frames, outfile, emailSent, readFailed,
                   response, hire>>

\* One turn of pagination_helper's loop on a 2xx answer: the directory
\* serves its next page, the page's items are appended, and the loop goes on
\* while the page carries a next link.
FetchUsersPage ==
    /\ pc = "users"
    /\ pages < MaxPages
    /\ chain # <<>>
    /\ LET value == Head(chain)
           more == Tail(chain) # <<>>
       IN  /\ users_df' = users_df \o [i \in 1..Len(value) |-> UserRow(value[i])]
           /\ pc' = IF more THEN "users" ELSE "activity"
           /\ pages' = IF more THEN pages + 1 ELSE 0
    /\ chain' = Tail(chain)
    /\ UNCHANGED <<skus_df, activity_df, frames, outfile, emailSent, readFailed,
                   response, hire>>

\* One turn of the loop on an error answer with a JSON body: no "value", no
\* next link, so the loop ends with the rows collected so far and the pages
\* left are never requested.
FetchUsersPageError ==
    /\ pc = "users"
    /\ pages < MaxPages
    /\ chain # <<>>
    /\ chain' = <<>>
    /\ pages' = 0
    /\ readFailed' = TRUE
    /\ pc' = "activity"
    /\ UNCHANGED <<skus_df, users_df, activity_df, frames, outfile, emailSent,
                   response, hire>>

\* get_users_activity_status on a 2xx answer whose body reads as one of
\* `readers`.
ReadActivity(readers) ==
    /\ pc = "activity"
    /\ \E reader \in readers :
        /\ response' = reader
        /\ activity_df' = ActivityRows(reader)
    /\ pc' = "process"
    /\ UNCHANGED <<skus_df, users_df, pages, frames, outfile, emailSent, readFailed,
                   chain, hire>>

\* get_users_activity_status on a report of the accounts of the run.
GetActivity == ReadActivity(ReportReaders)

\* get_users_activity_status on an error answer: the body is read as CSV, no
\* row has an identifier column, every row is skipped.
GetActivityError ==
    /\ pc = "activity"
    /\ response' = <<>>
    /\ activity_df' = <<>>
    /\ readFailed' = TRUE
    /\ pc' = "process"
    /\ UNCHANGED <<skus_df, users_df, pages, frames, outfile, emailSent, chain,
                   hire>>

\* requests.get raises (no connection), or .json() raises on an error answer
\* whose body is not JSON: the exception leaves main().
ReadRaises ==
    /\ pc \in {"skus", "users", "activity"}
    /\ pc = "users" => pages < MaxPages
    /\ readFailed' = TRUE
    /\ pc' = "failed"
    /\ UNCHANGED <<skus_df, users_df, pages, activity_df, frames, outfile, emailSent,
                   response, chain, hire>>

\* ------------------------------------------------------------------------
\* main(): process_and_export_data and send_email

\* A frame built from no rows has no columns: activity_df["LastActivityDate"],
\* users_df["UPN"] and skus_df["skuId"] raise KeyError.
FrameHasColumns(df) == df # <<>>

ProcessRaises ==
    /\ pc = "process"
    /\ ~(FrameHasColumns(activity_df) /\ FrameHasColumns(users_df)
            /\ FrameHasColumns(skus_df))
    /\ pc' = "failed"
    /\ UNCHANGED <<skus_df, users_df, pages, activity_df, frames, outfile,
                   emailSent, readFailed, response, chain,
                   hire>>

\* Everything process_and_export_data computes before it opens the workbook.
Process ==
    /\ pc = "process"
    /\ FrameHasColumns(activity_df) /\ FrameHasColumns(users_df)
            /\ FrameHasColumns(skus_df)
    /\ LET merged == MergedDf(skus_df, users_df, activity_df)
           u == Util(merged)
       IN  /\ merged_df' = merged
           /\ to_do1' = ToDo1(merged)
           /\ to_do2' = ToDo2(merged)
           /\ util' = u
           /\ cost_summary' = CostSummary(SkuSummary(skus_df, u))
           /\ kpis' = Kpis(u, ToDo1(merged), ToDo2(merged))
    /\ pc' = "write1"
    /\ UNCHANGED <<skus_df, users_df, pages, activity_df, outfile, emailSent,
                   readFailed, response, chain, hire>>

\* The first ExcelWriter block: four sheets, saved when the block ends.
WriteWorkbook ==
    /\ pc = "write1"
    /\ outfile' = [exists |-> TRUE,
                   sheets |-> FirstWorkbook(kpis, cost_summary, actionable,
                                            merged_df)]
    /\ pc' = "write2"
    /\ UNCHANGED <<skus_df, users_df, pages, activity_df, frames, emailSent,
                   readFailed, response, chain, hire>>

\* The second ExcelWriter block opens the same path for writing: a new
\* workbook with three sheets replaces the file when the block ends.
RewriteWorkbook ==
    /\ pc = "write2"
    /\ outfile' = [exists |-> TRUE,
                   sheets |-> SecondWorkbook(cost_summary, actionable, merged_df)]
    /\ pc' = "email"
    /\ UNCHANGED <<skus_df, users_df, pages, activity_df, frames, emailSent,
                   readFailed, response, chain, hire>>

\* send_email delivers the message with the workbook attached.
SendEmail ==
    /\ pc = "email"
    /\ outfile.exists
    /\ emailSent' = TRUE
    /\ pc' = "done"
    /\ UNCHANGED <<skus_df, users_df, pages, activity_df, frames, outfile,
                   readFailed, response, chain, hire>>

\* Faulty variant: the failure path deletes the workbook.
SendEmailFails_removes_file ==
    /\ pc = "email"
    /\ pc' = "failed"
    /\ outfile' = NoFile
    /\ UNCHANGED <<skus_df, users_df, chain, pages, response, activity_df,
                   frames, emailSent, readFailed, hire>>

\* SMTP connection, login or delivery raises.
SendEmailFails ==
    /\ pc = "email"
    /\ pc' = "failed"
    /\ UNCHANGED <<skus_df, users_df, pages, activity_df, frames, outfile,
                   emailSent, readFailed, response, chain,
                   hire>>

Next ==
    \/ GetToken
    \/ GetTokenFails
    \/ GetLicenses
    \/ GetLicensesError
    \/ FetchUsersPage
    \/ FetchUsersPageError
    \/ GetActivity
    \/ GetActivityError
    \/ ReadRaises
    \/ ProcessRaises
    \/ Process
    \/ WriteWorkbook
    \/ RewriteWorkbook
    \/ SendEmail
    \/ SendEmailFails

Spec == Init /\ [][Next]_vars

\* A turn of pagination_helper's loop, whatever the answer to its request.
UsersTurn ==
    \/ FetchUsersPage
    \/ FetchUsersPageError
    \/ (pc = "users" /\ ReadRaises)

\* The loop is part of one sequential process and every request it makes
\* returns or raises: while a turn can be taken, one is taken.
FairSpec == Spec /\ WF_vars(UsersTurn)

\* ------------------------------------------------------------------------
\* get_users_activity_status alone, on any report

\* main() is about to call get_users_activity_status.
InitActivity ==
    /\ pc = "activity"
    /\ skus_df = <<>>
    /\ users_df = <<>>
    /\ chain = <<>>
    /\ pages = 0
    /\ response = <<>>
    /\ activity_df = <<>>
    /\ merged_df = <<>>
    /\ to_do1 = <<>>
    /\ to_do2 = <<>>
    /\ util = <<>>
    /\ cost_summary = <<>>
    /\ kpis = NoKpis
    /\ outfile = NoFile
    /\ emailSent = FALSE
    /\ readFailed = FALSE
    /\ HireOff

\* get_users_activity_status on a 2xx answer carrying any report.
GetActivityAnyReport == ReadActivity(CsvReaders)

NextActivity ==
    \/ GetActivityAnyReport
    \/ GetActivityError

SpecActivity == InitActivity /\ [][NextActivity]_vars

\* ------------------------------------------------------------------------
\* new-hire-creation.py

\* license-report.py is not run.
ReportOff ==
    /\ pc = "off"
    /\ skus_df = <<>>
    /\ users_df = <<>>
    /\ chain = <<>>
    /\ pages = 0
    /\ response = <<>>
    /\ activity_df = <<>>
    /\ merged_df = <<>>
    /\ to_do1 = <<>>
    /\ to_do2 = <<>>
    /\ util = <<>>
    /\ cost_summary = <<>>
    /\ kpis = NoKpis
    /\ outfile = NoFile
    /\ emailSent = FALSE
    /\ readFailed = FALSE

\* Group ids a configuration can name.
GroupPool == {"g1", "g2", "g3"}

\* The lists GROUP_IDS can be set to: at most MaxGroups ids, none twice.
GroupLists ==
    {g \in UNION {[1..n -> GroupPool] : n \in 0..MaxGroups} :
        \A i, j \in 1..Len(g) : i # j => g[i] # g[j]}

\* What the operator can type for the username and the manager's email.
Usernames == {"a", "b"}
ManagerEmails == {"m@x", "n@x"}

\* The object id the directory gives the account of a principal name.
IdOf(name) == <<"id", name>>

InitNewHire ==
    /\ ReportOff
    /\ hpc = "input"
    /\ GROUP_IDS \in GroupLists
    /\ user_data = NoUserData
    /\ user_id = ""
    /\ calls = <<>>
    /\ accounts = {}
    /\ manager = ""
    /\ members = <<>>

\* main(): the prompts.
ReadInputs ==
    /\ hpc = "input"
    /\ \E username \in Usernames, manager_email \in ManagerEmails :
          user_data' = [userPrincipalName |-> <<username, "@", "x">>,
                        manager_email |-> manager_email]
    /\ hpc' = "token"
    /\ UNCHANGED <<GROUP_IDS, user_id, calls, accounts, manager, members, report>>

\* get_token: the answer carries an access_token.
get_token ==
    /\ hpc = "token"
    /\ calls' = Append(calls, "token")
    /\ hpc' = "create"
    /\ UNCHANGED <<GROUP_IDS, user_data, user_id, accounts, manager, members,
                   report>>

\* get_token: no access_token in the answer, or the request raises.
get_token_raises ==
    /\ hpc = "token"
    /\ calls' = Append(calls, "token")
    /\ hpc' = "failed"
    /\ UNCHANGED <<GROUP_IDS, user_data, user_id, accounts, manager, members,
                   report>>

\* create_user: POST /users answers 2xx with the id of the new account.
create_user ==
    /\ hpc = "create"
    /\ calls' = Append(calls, "create")
    /\ accounts' = accounts \cup {user_data.userPrincipalName}
    /\ user_id' = IdOf(user_data.userPrincipalName)
    /\ hpc' = "lookup"
    /\ UNCHANGED <<GROUP_IDS, user_data, manager, members, report>>

\* create_user: raise_for_status raises on the answer.
create_user_raises ==
    /\ hpc = "create"
    /\ calls' = Append(calls, "create")
    /\ hpc' = "failed"
    /\ UNCHANGED <<GROUP_IDS, user_data, user_id, accounts, manager, members,
                   report>>

\* assign_manager: GET /users/{manager_email} answers 2xx.
assign_manager_lookup ==
    /\ hpc = "lookup"
    /\ calls' = Append(calls, "lookup")
    /\ hpc' = "assign"
    /\ UNCHANGED <<GROUP_IDS, user_data, user_id, accounts, manager, members,
                   report>>

\* assign_manager: the lookup answers an error status.
assign_manager_lookup_raises ==
    /\ hpc = "lookup"
    /\ calls' = Append(calls, "lookup")
    /\ hpc' = "failed"
    /\ UNCHANGED <<GROUP_IDS, user_data, user_id, accounts, manager, members,
                   report>>

\* assign_manager: PUT /users/{user_id}/manager/$ref answers 2xx.
assign_manager ==
    /\ hpc = "assign"
    /\ calls' = Append(calls, "assign")
    /\ manager' = user_data.manager_email
    /\ hpc' = "groups"
    /\ UNCHANGED <<GROUP_IDS, user_data, user_id, accounts, members, report>>

\* Faulty variant: a failed assignment deletes the account again.
assign_manager_raises_rollback ==
    /\ hpc = "assign"
    /\ calls' = Append(calls, "assign")
    /\ accounts' = {}
    /\ hpc' = "failed"
    /\ UNCHANGED <<GROUP_IDS, user_data, user_id, manager, members, report>>

\* assign_manager: the PUT answers an error status.
assign_manager_raises ==
    /\ hpc = "assign"
    /\ calls' = Append(calls, "assign")
    /\ hpc' = "failed"
    /\ UNCHANGED <<GROUP_IDS, user_data, user_id, accounts, manager, members,
                   report>>

\* add_user_to_groups: one turn of the loop, the POST answers 2xx.  The turns
\* taken so far are the groups added so far.
add_user_to_groups ==
    /\ hpc = "groups"
    /\ Len(members) < Len(GROUP_IDS)
    /\ LET group_id == GROUP_IDS[Len(members) + 1]
       IN  /\ calls' = Append(calls, group_id)
           /\ members' = Append(members, group_id)
    /\ UNCHANGED <<hpc, GROUP_IDS, user_data, user_id, accounts, manager, report>>

\* add_user_to_groups: one turn of the loop, the POST answers an error status.
add_user_to_groups_raises ==
    /\ hpc = "groups"
    /\ Len(members) < Len(GROUP_IDS)
    /\ calls' = Append(calls, GROUP_IDS[Len(members) + 1])
    /\ hpc' = "failed"
    /\ UNCHANGED <<GROUP_IDS, user_data, user_id, accounts, manager, members,
                   report>>

\* The loop is over; main() prints its last line and returns.
Onboarded ==
    /\ hpc = "groups"
    /\ Len(members) = Len(GROUP_IDS)
    /\ hpc' = "done"
    /\ UNCHANGED <<GROUP_IDS, user_data, user_id, calls, accounts, manager,
                   members, report>>

NextNewHire ==
    \/ ReadInputs
    \/ get_token
    \/ get_token_raises
    \/ create_user
    \/ create_user_raises
    \/ assign_manager_lookup
    \/ assign_manager_lookup_raises
    \/ assign_manager
    \/ assign_manager_raises
    \/ add_user_to_groups
    \/ add_user_to_groups_raises
    \/ Onboarded

SpecNewHire == InitNewHire /\ [][NextNewHire]_vars

\* ------------------------------------------------------------------------
\* Reading the state

\* process_and_export_data has left both ExcelWriter blocks.
AllWritten == outfile.exists /\ pc # "write2"

\* process_and_export_data has computed its frames.
Processed == pc \in {"write1", "write2", "email", "done"} \/ AllWritten

SheetNames == [i \in 1..Len(outfile.sheets) |-> outfile.sheets[i].name]

HasSheet(name) == \E i \in 1..Len(outfile.sheets) : outfile.sheets[i].name = name

SheetRows(name) ==
    outfile.sheets[CHOOSE i \in 1..Len(outfile.sheets) :
                        outfile.sheets[i].name = name].rows

\* The number of positions of s whose element satisfies test.
Count(s, test(_)) == Cardinality({i \in 1..Len(s) : test(s[i])})

\* The Actionable sheet lists the pair (reason, upn).
Listed(reason, upn) ==
    \E i \in 1..Len(SheetRows("Actionable")) :
        /\ SheetRows("Actionable")[i].Reason = reason
        /\ SheetRows("Actionable")[i].UPN = upn

\* The part numbers user row u holds: its assigned ids resolved through the
\* SKU snapshot, unresolved ids kept.
PartsHeld(u) ==
    {LicenseMapGet(skus_df, u.assignedLicenses[i]) : i \in 1..Len(u.assignedLicenses)}

\* ------------------------------------------------------------------------
\* C1.  After process_and_export_data has finished all of its write steps,
\* the workbook at the output path holds exactly the four sheets Overview,
\* SKU_Summary, Actionable and Users.
C1_FourSheets ==
    AllWritten =>
        /\ Len(SheetNames) = 4
        /\ \A n \in {"Overview", "SKU_Summary", "Actionable", "Users"} : HasSheet(n)

\* C2.  The Users sheet holds exactly one row per input user, however many
\* activity rows carry the user's UPN (compared case-insensitively); a user
\* without a matching activity row appears once, with a missing date.
C2_OneRowPerUser ==
    AllWritten =>
        \A k \in 1..Len(users_df) :
            LET mine(r) == r.UPN = users_df[k].UPN
                matches == Count(activity_df,
                    LAMBDA a : NormalizeUpn(a.UPN_lower) = NormalizeUpn(users_df[k].UPN))
            IN  /\ Count(SheetRows("Users"), mine) = 1
                /\ matches = 0 =>
                    \A i \in 1..Len(SheetRows("Users")) :
                        mine(SheetRows("Users")[i]) =>
                            SheetRows("Users")[i].LastActivityDate.na

\* C3.  When a read of the acquisition (subscribed SKUs, a page of the users
\* listing, the activity report) gets an error answer, the run aborts: no
\* workbook is written and no email is sent.
C3_AbortOnReadError ==
    readFailed => (~outfile.exists /\ ~emailSent)

\* A row of merged_df of a disabled account whose only license is
\* EXCHANGEENTERPRISE.
ExchangeOnlyDisabled(r) ==
    r.licenses = <<"EXCHANGEENTERPRISE">> /\ r.accountEnabled = FALSE

\* C4, as stated.  A disabled account whose only license is
\* EXCHANGEENTERPRISE is listed in the Actionable sheet under no reason,
\* whatever its activity.
C4_ExchangeOnlyNeverListed ==
    AllWritten =>
        \A i \in 1..Len(merged_df) :
            ExchangeOnlyDisabled(merged_df[i]) =>
                /\ ~Listed(REASON_INACTIVE, merged_df[i].UPN)
                /\ ~Listed(REASON_DISABLED, merged_df[i].UPN)

\* C4, amended.  A disabled account whose only license is EXCHANGEENTERPRISE
\* is never listed under the disabled-account reason; it is listed under the
\* inactivity reason exactly when it is inactive (no activity date, or an
\* Eastern activity date on or before the cutoff).
C4_ExchangeOnlyListedIffInactive ==
    AllWritten =>
        \A i \in 1..Len(merged_df) :
            ExchangeOnlyDisabled(merged_df[i]) =>
                /\ ~Listed(REASON_DISABLED, merged_df[i].UPN)
                /\ Listed(REASON_INACTIVE, merged_df[i].UPN) <=>
                    \E j \in 1..Len(merged_df) :
                        /\ merged_df[j].UPN = merged_df[i].UPN
                        /\ \/ merged_df[j].LastActivityDate.na
                           \/ merged_df[j].LastActivityDate.v <= Today - PERIOD_DAYS

\* C4 witness: the workbook is written, one such account is inactive and
\* listed under the inactivity reason, another row of such an account is
\* active and the account is not listed at all.
C4_Witness ==
    /\ AllWritten
    /\ \E i \in 1..Len(merged_df) :
        /\ ExchangeOnlyDisabled(merged_df[i])
        /\ merged_df[i].LastActivityDate.na
        /\ Listed(REASON_INACTIVE, merged_df[i].UPN)
    /\ \E i \in 1..Len(merged_df) :
        /\ ExchangeOnlyDisabled(merged_df[i])
        /\ ~merged_df[i].LastActivityDate.na
        /\ ~Listed(REASON_INACTIVE, merged_df[i].UPN)

\* C5.  In every row of the Users sheet Inactive30d is true when the date is
\* missing, and otherwise true exactly when the Eastern date is on or before
\* today minus PERIOD_DAYS: the cutoff date itself counts as inactive and a
\* row with an earlier date than an inactive row is inactive too.
C5_InactiveFlag ==
    AllWritten =>
        LET rows == SheetRows("Users")
        IN  /\ \A i \in 1..Len(rows) :
                    rows[i].Inactive30d =
                        (\/ rows[i].LastActivityDate.na
                         \/ rows[i].LastActivityDate.v <= Today - PERIOD_DAYS)
            /\ \A i, j \in 1..Len(rows) :
                    (/\ ~rows[i].LastActivityDate.na
                     /\ ~rows[j].LastActivityDate.na
                     /\ rows[i].LastActivityDate.v <= rows[j].LastActivityDate.v
                     /\ rows[j].Inactive30d) => rows[i].Inactive30d

\* C5 witness: the Users sheet has a row dated on the cutoff that is
\* inactive, a row without a date that is inactive, and an active row.
C5_Witness ==
    /\ AllWritten
    /\ LET rows == SheetRows("Users")
       IN  /\ \E i \in 1..Len(rows) :
                /\ ~rows[i].LastActivityDate.na
                /\ rows[i].LastActivityDate.v = Today - PERIOD_DAYS
                /\ rows[i].Inactive30d
           /\ \E i \in 1..Len(rows) :
                rows[i].LastActivityDate.na /\ rows[i].Inactive30d
           /\ \E i \in 1..Len(rows) : ~rows[i].Inactive30d

\* The rows of merged_df of the account with this UPN.
RowsOf(upn) == SelectSeq(merged_df, LAMBDA m : m.UPN = upn)

\* Some row of the account is inactive: no date, or a date on or before the cutoff.
SomeRowInactive(upn) ==
    \E i \in 1..Len(RowsOf(upn)) :
        \/ RowsOf(upn)[i].LastActivityDate.na
        \/ RowsOf(upn)[i].LastActivityDate.v <= Today - PERIOD_DAYS

\* Some row of the account is active.
SomeRowActive(upn) ==
    \E i \in 1..Len(RowsOf(upn)) :
        /\ ~RowsOf(upn)[i].LastActivityDate.na
        /\ RowsOf(upn)[i].LastActivityDate.v > Today - PERIOD_DAYS

\* The account holds a SKU whose unit cost is positive, none of `except` counted.
HoldsPaid(u, except) == \E p \in PartsHeld(u) \ except : UnitCost(p) > 0

\* C6.  An account is listed under the inactivity reason if and only if it
\* holds a license, is inactive and holds a paid license; it is listed under
\* the disabled-account reason if and only if it holds a license, holds a paid
\* license other than EXCHANGEENTERPRISE and its accountEnabled is false.  Each
\* rule decides alone.
C6_ActionableRules ==
    AllWritten =>
        \A k \in 1..Len(users_df) :
            LET u == users_df[k]
            IN  /\ Listed(REASON_INACTIVE, u.UPN) <=>
                    (/\ PartsHeld(u) # {}
                     /\ SomeRowInactive(u.UPN)
                     /\ HoldsPaid(u, {}))
                /\ Listed(REASON_DISABLED, u.UPN) <=>
                    (/\ PartsHeld(u) # {}
                     /\ HoldsPaid(u, {"EXCHANGEENTERPRISE"})
                     /\ u.accountEnabled = FALSE)

\* C6 witness: an account with a paid license and no activity row is listed
\* under the inactivity reason only, and another account is listed under the
\* disabled-account reason only.
C6_Witness ==
    /\ AllWritten
    /\ \E k \in 1..Len(users_df) :
        /\ HoldsPaid(users_df[k], {})
        /\ \A i \in 1..Len(activity_df) :
                NormalizeUpn(activity_df[i].UPN_lower) # NormalizeUpn(users_df[k].UPN)
        /\ Listed(REASON_INACTIVE, users_df[k].UPN)
        /\ ~Listed(REASON_DISABLED, users_df[k].UPN)
    /\ \E k \in 1..Len(users_df) :
        /\ Listed(REASON_DISABLED, users_df[k].UPN)
        /\ ~Listed(REASON_INACTIVE, users_df[k].UPN)

\* C7.  In the Actionable sheet no two rows share (Reason, UPN), and every
\* pair either rule produced is there exactly once, so an account matched by
\* both rules has two rows, one per reason.
C7_UniquePairs ==
    AllWritten =>
        LET rows == SheetRows("Actionable")
            produced == actionable
        IN  /\ \A i, j \in 1..Len(rows) :
                    (rows[i].Reason = rows[j].Reason /\ rows[i].UPN = rows[j].UPN)
                        => i = j
            /\ \A k \in 1..Len(produced) :
                    Count(rows, LAMBDA r : /\ r.Reason = produced[k].Reason
                                           /\ r.UPN = produced[k].row.UPN) = 1
            /\ \A i \in 1..Len(rows) :
                    \E k \in 1..Len(produced) :
                        /\ rows[i].Reason = produced[k].Reason
                        /\ rows[i].UPN = produced[k].row.UPN

\* C7 witness: a rule produced the same pair twice, and an account is
\* listed under both reasons.
C7_Witness ==
    /\ AllWritten
    /\ Len(actionable) > Len(SheetRows("Actionable"))
    /\ \E k \in 1..Len(users_df) :
        /\ Listed(REASON_INACTIVE, users_df[k].UPN)
        /\ Listed(REASON_DISABLED, users_df[k].UPN)

\* The input users that hold a license, and those of them that are active.
LicensedUsers == {k \in 1..Len(users_df) : PartsHeld(users_df[k]) # {}}

ActiveLicensedUsers == {k \in LicensedUsers : SomeRowActive(users_df[k].UPN)}

Holders(p) == {k \in 1..Len(users_df) : p \in PartsHeld(users_df[k])}

C10_CostSummaryFilter ==
    AllWritten =>
        \A i \in 1..Len(skus_df) :
            LET sku == skus_df[i]
                shown == \E j \in 1..Len(SheetRows("SKU_Summary")) :
                            SheetRows("SKU_Summary")[j].skuPartNumber = sku.skuPartNumber
            IN  shown <=>
                    /\ sku.total_enabled > 0
                    /\ ~EndsWith(DecimalString(sku.total_enabled), <<"0", "0">>)
                    /\ UnitCost(sku.skuPartNumber) > 0
                    /\ sku.consumed * UnitCost(sku.skuPartNumber) > 0

\* C10 witness: the sheet shows one SKU of the snapshot and leaves out
\* another whose only failing condition is the "00" ending.
C10_Witness ==
    /\ AllWritten
    /\ Len(SheetRows("SKU_Summary")) > 0
    /\ \E i \in 1..Len(skus_df) :
        /\ skus_df[i].total_enabled > 0
        /\ EndsWith(DecimalString(skus_df[i].total_enabled), <<"0", "0">>)
        /\ skus_df[i].consumed * UnitCost(skus_df[i].skuPartNumber) > 0
        /\ \A j \in 1..Len(SheetRows("SKU_Summary")) :
                SheetRows("SKU_Summary")[j].skuPartNumber # skus_df[i].skuPartNumber

\* ------------------------------------------------------------------------
\* C11

\* The first populated (non-empty) of three identifier fields, <<>> if none.
FirstPopulated(a, b, c) ==
    CASE a # <<>> -> a
      [] a = <<>> /\ b # <<>> -> b
      [] OTHER -> c

\* The first populated of three date fields, the empty cell if none.
FirstPopulatedCell(a, b, c) ==
    CASE a # EmptyCell -> a
      [] a = EmptyCell /\ b # EmptyCell -> b
      [] OTHER -> c

\* The identifier of a report row: trimmed and lower-cased.
IdentifierOf(row) ==
    Lower(Strip(FirstPopulated(row.UserPrincipalName, row.UPN, row.UserId)))

SkippedPrefixes ==
    { <<"u", "s", "e", "r", " ">>,
      <<"h", "i", "d", "d", "e", "n">>,
      <<"r", "e", "d", "a", "c", "t", "e", "d">> }

\* A row is kept unless its identifier is empty or has a skipped prefix.
KeptRow(row) ==
    /\ IdentifierOf(row) # <<>>
    /\ \A p \in SkippedPrefixes :
          ~(Len(IdentifierOf(row)) >= Len(p)
              /\ \A i \in 1..Len(p) : IdentifierOf(row)[i] = p[i])

\* Positions of the kept rows of the report read.
KeptPositions == {i \in 1..Len(response) : KeptRow(response[i])}

\* The position in the report of the j-th kept row.
KeptAt(j) ==
    CHOOSE i \in KeptPositions : Cardinality({k \in KeptPositions : k <= i}) = j

\* C11: get_users_activity_status emits, in source order, one (identifier,
\* date) pair for exactly the kept rows of the report: the identifier is the
\* first populated of User Principal Name, UPN, User Id, trimmed and
\* lower-cased; a row is skipped iff the identifier is empty or starts with
\* "user ", "hidden" or "redacted"; the date is the first populated of Last
\* Activity Date, Last Activity Date (UTC), Report Refresh Date.
C11_ActivityPairs ==
    /\ Len(activity_df) = Cardinality(KeptPositions)
    /\ \A j \in 1..Len(activity_df) :
          LET row == response[KeptAt(j)]
          IN  /\ activity_df[j].UPN_lower = IdentifierOf(row)
              /\ activity_df[j].LastActivityDate =
                    FirstPopulatedCell(row.LastActivityDate,
                                       row.LastActivityDateUTC,
                                       row.ReportRefreshDate)

\* A report of two rows was read: one is skipped for its prefix, the other
\* is kept with its identifier and its date both taken from a later column.
C11_Witness ==
    /\ pc = "process"
    /\ Len(response) = 2
    /\ Len(activity_df) = 1
    /\ \E i \in 1..2 :
          /\ IdentifierOf(response[i]) # <<>>
          /\ ~KeptRow(response[i])
          /\ KeptRow(response[3 - i])
          /\ response[3 - i].UserPrincipalName = <<>>
          /\ response[3 - i].LastActivityDate = EmptyCell
          /\ activity_df[1].LastActivityDate # EmptyCell

\* ------------------------------------------------------------------------
\* C12

\* The rows get_all_users builds for the items of the pages in `ch`, in page
\* order.
RECURSIVE ItemsOf(_)
ItemsOf(ch) ==
    IF ch = <<>> THEN <<>>
    ELSE [i \in 1..Len(Head(ch)) |->
              [id |-> Head(ch)[i].id, UPN |-> Head(ch)[i].userPrincipalName,
               accountEnabled |-> Head(ch)[i].accountEnabled,
               assignedLicenses |-> Head(ch)[i].assignedLicenses]]
         \o ItemsOf(Tail(ch))

\* A turn of the loop on a result page: the rows collected followed by the
\* items of the pages still to be served stay the same list, so each item is
\* collected once and in page order; the loop goes on exactly while a page
\* is left, and each turn takes one page.
PaginationStep ==
    (pc = "users" /\ ~readFailed')
        => /\ users_df' \o ItemsOf(chain') = users_df \o ItemsOf(chain)
           /\ pc' = "users" <=> chain' # <<>>
           /\ Len(chain') < Len(chain)
           /\ pc' \in {"users", "activity"}

\* Reading the report and the join/flagging phase come after the last page.
AfterLastPage ==
    (pc \in {"activity", "process", "write1", "write2", "email", "done"}
        \/ merged_df # <<>> \/ outfile.exists)
        => chain = <<>>

\* C12: for any finite chain of result pages, get_all_users follows every
\* next link until a page has none, terminates, and returns the items of all
\* pages exactly once in page order; the join/flagging phase starts only
\* after the last page has been read.
C12_Pagination ==
    /\ [][PaginationStep]_vars
    /\ []AfterLastPage
    /\ [](pc = "users" => <>(pc # "users"))

\* Half-way through a chain of two pages, both with an item: the first page
\* has been collected and its next link is about to be followed.
C12_Witness ==
    /\ pc = "users"
    /\ ~readFailed
    /\ pages = 1
    /\ Len(users_df) = 1
    /\ Len(chain) = 1
    /\ Len(Head(chain)) = 1

\* ------------------------------------------------------------------------
\* C13

\* A step of send_email: the workbook has been written by then and the step
\* leaves it as it is; the message goes out in no other step; a send that
\* does not deliver ends the run in failure.
SendStep ==
    /\ pc = "email" =>
          /\ outfile.exists /\ outfile.sheets # <<>>
          /\ outfile' = outfile
          /\ emailSent' \/ pc' = "failed"
    /\ emailSent' # emailSent => pc = "email"

\* C13: in every run of main the email send is attempted only after the
\* workbook has been written; if the send fails the run ends in failure (no
\* statement runs after it) with the workbook still on disk, neither removed
\* nor truncated.
C13_EmailAfterWorkbook == [][SendStep /\ pc # "failed"]_vars

\* The send has failed: the run is over, nothing was delivered, and the
\* workbook is on disk.
C13_Witness ==
    /\ pc = "failed"
    /\ outfile.exists
    /\ outfile.sheets # <<>>
    /\ ~emailSent

\* ------------------------------------------------------------------------
\* C14

IsPrefix(a, b) == Len(a) <= Len(b) /\ \A i \in 1..Len(a) : a[i] = b[i]

\* The requests of a complete run, in order.
AllCalls == <<"token", "create", "lookup", "assign">> \o GROUP_IDS

\* The group calls made so far.
GroupCalls == IF Len(calls) > 4 THEN Len(calls) - 4 ELSE 0

\* The requests made are the first requests of a complete run, each made
\* once; every group call but a failed last one has added its group, in list
\* order; once the account is created it is in the directory whatever fails
\* later, and the manager is set exactly when the assignment succeeded.
ProvisioningState ==
    /\ IsPrefix(calls, AllCalls)
    /\ IsPrefix(members, GROUP_IDS)
    /\ Len(members) = IF hpc = "failed" /\ GroupCalls > 0
                         THEN GroupCalls - 1 ELSE GroupCalls
    /\ Len(calls) >= 3 => accounts = {user_data.userPrincipalName}
    /\ (hpc = "failed" /\ Len(calls) <= 2) => accounts = {}
    /\ manager # "" <=>
          \/ Len(calls) > 4
          \/ Len(calls) = 4 /\ hpc # "failed"

\* No statement runs after a failure or after the end; a step makes at most
\* one request, undoes nothing, and a failing step changes nothing in the
\* directory.
ProvisioningStep ==
    /\ hpc \notin {"failed", "done"}
    /\ Len(calls') <= Len(calls) + 1
    /\ accounts \subseteq accounts'
    /\ manager # "" => manager' = manager
    /\ IsPrefix(members, members')
    /\ hpc' = "failed" =>
          /\ Len(calls') = Len(calls) + 1
          /\ accounts' = accounts /\ manager' = manager /\ members' = members

\* C14: the provisioning script attempts token acquisition, account
\* creation, manager assignment and group addition in that order, each at
\* most once and without retry; after a failing step no later step is
\* attempted and nothing done is undone, so a failure of the manager
\* assignment or of a group call leaves the created account in the
\* directory, and the groups are added in list order up to the first
\* failing one.
C14_ProvisioningOrder == []ProvisioningState /\ [][ProvisioningStep]_vars

\* The call for the second of two groups failed: the account, its manager
\* and the first group are in the directory.
C14_Witness ==
    /\ hpc = "failed"
    /\ Len(GROUP_IDS) = 2
    /\ Len(calls) = 6
    /\ members = <<GROUP_IDS[1]>>
    /\ accounts # {}
    /\ manager # ""

====
